---- MODULE Spec2Model ----
(***************************************************************************)
(* RBAC gatekeeper: the role-permission graph kept in the five tables of   *)
(* the migrations, the permission resolver and the credential / token      *)
(* operations of RBACService, and the repositories it calls.               *)
(***************************************************************************)
EXTENDS Integers, Sequences, FiniteSets, TLC

VARIABLES
    users,             \* table users: set of rows
    roles,             \* table roles: set of rows
    permissions,       \* table permissions: set of rows
    user_roles,        \* table user_roles: rows in insertion (rowid) order
    role_permissions,  \* table role_permissions: rows in insertion order
    foreignKeys,       \* whether the database enforces the declared foreign keys
    secret,            \* config.jwt.secret of the running service
    now,               \* the clock, in token-lifetime units
    issued,            \* every token generateToken has returned so far
    calls,             \* in-flight assignment calls, one slot per concurrent caller
    response,          \* what the last completed operation returned to its caller
    http,              \* the request in the middleware chain: req, res and the calls of next
    resolve            \* the in-flight getUserPermissions / authenticateUser call

vars == <<users, roles, permissions, user_roles, role_permissions, foreignKeys,
          secret, now, issued, calls, response, http, resolve>>

(***************************************************************************)
(* Bounds of the model                                                     *)
(***************************************************************************)
MaxRows == 2        \* rows a junction table may hold in the model
MaxClock == 3       \* the clock stops advancing here
TTL == 2            \* config.jwt.expiresIn, in clock units
MaxIssued == 1      \* tokens issued in one behaviour

(***************************************************************************)
(* Values                                                                  *)
(***************************************************************************)
\* a null result
Null == [kind |-> "null"]

None == <<>>
Some(x) == <<x>>

UserIds == {"admin-user-id", "user-1-id"}
RoleIds == {"admin-role-id", "user-role-id"}
PermissionIds == {"perm-17", "perm-19"}
Usernames == {"admin", "user1", "ghost"}
Passwords == {"password", "wrong"}
RoleNames == {"admin", "user", "Admin"}
Resources == {"content", "Content"}
Actions == {"read", "delete", "READ"}
Secrets == {"secret-1", "secret-2"}
Callers == {"c1", "c2"}

\* no resolver call in flight; a call keeps what its queries have returned so far and,
\* for the claims about it, the grants of its user in every graph state since it began
NotResolving ==
    [pc |-> "idle", op |-> "none", userId |-> "", roles |-> <<>>, userRoles |-> <<>>,
     i |-> 0, allPermissions |-> <<>>, graph |-> <<>>, seen |-> {}]

\* a caller slot with no assignment call in flight
Idle == [pc |-> "idle", junction |-> "none", a |-> "", b |-> "", by |-> "",
         overlapped |-> FALSE, repositoryResult |-> FALSE, result |-> FALSE]

\* the Authorization header: the string scheme + credentials, split after its seventh
\* character, which is where 'Bearer ' ends
Header(scheme, credentials) == [scheme |-> scheme, credentials |-> credentials]

\* the requirement a route's gate was built with
Requirement(gate, roleNames, checks) ==
    [name |-> gate, roleNames |-> roleNames, checks |-> checks]

\* a request entering a route's middleware chain: req.headers.authorization, req.user,
\* the statuses sent on res, the calls of next, the resolver queries made for it
Request(middleware, pc, authorization) ==
    [pc |-> pc, middleware |-> middleware, authorization |-> authorization,
     user |-> None, status |-> <<>>, next |-> 0, queries |-> 0, failed |-> FALSE,
     threw |-> FALSE, gate |-> Requirement("none", <<>>, <<>>)]

\* no request is in the middleware chain
NoRequest == Request("none", "none", None)

PermissionChecks == [resource : Resources, action : Actions]

\* String.prototype.toLowerCase on the strings of the model
toLowerCase(s) ==
    CASE s = "Content" -> "content"
      [] s = "READ" -> "read"
      [] s = "Admin" -> "admin"
      [] OTHER -> s

Range(s) == {s[i] : i \in 1..Len(s)}

(***************************************************************************)
(* Credentials: bcrypt.hash / bcrypt.compare                               *)
(***************************************************************************)
bcryptHash(password) == [alg |-> "bcrypt", of |-> password]
bcryptCompare(password, hash) == hash = bcryptHash(password)

(***************************************************************************)
(* Seed data (001_initial_data), restricted to the ids of the model        *)
(***************************************************************************)
SeedUsers ==
    { [id |-> "admin-user-id", username |-> "admin", email |-> "admin@example.com",
       password |-> bcryptHash("password"), is_active |-> TRUE],
      [id |-> "user-1-id", username |-> "user1", email |-> "user1@example.com",
       password |-> bcryptHash("password"), is_active |-> TRUE] }

SeedRoles ==
    { [id |-> "admin-role-id", name |-> "admin", is_active |-> TRUE],
      [id |-> "user-role-id", name |-> "user", is_active |-> TRUE] }

SeedPermissions ==
    { [id |-> "perm-17", name |-> "content:read", resource |-> "content", action |-> "read"],
      [id |-> "perm-19", name |-> "content:delete", resource |-> "content", action |-> "delete"] }

SeedUserRoles ==
    << [user_id |-> "admin-user-id", role_id |-> "admin-role-id"],
       [user_id |-> "user-1-id", role_id |-> "user-role-id"] >>

SeedRolePermissions ==
    << [role_id |-> "admin-role-id", permission_id |-> "perm-19"],
       [role_id |-> "user-role-id", permission_id |-> "perm-17"] >>

(***************************************************************************)
(* UserRoleRepository / RolePermissionRepository queries                   *)
(***************************************************************************)
RoleRow(id) == CHOOSE r \in roles : r.id = id
PermissionRow(id) == CHOOSE p \in permissions : p.id = id

\* user_roles JOIN roles WHERE user_id = userId AND r.is_active
getUserRolesAnyActivity(userId) ==
    LET rows == SelectSeq(user_roles, LAMBDA ur :
                    /\ ur.user_id = userId
                    /\ \E r \in roles : r.id = ur.role_id)
    IN  [i \in 1..Len(rows) |-> RoleRow(rows[i].role_id)]

getUserRoles(userId) ==
    LET rows == SelectSeq(user_roles, LAMBDA ur :
                    /\ ur.user_id = userId
                    /\ \E r \in roles : r.id = ur.role_id /\ r.is_active)
    IN  [i \in 1..Len(rows) |-> RoleRow(rows[i].role_id)]

\* role_permissions JOIN permissions WHERE role_id = roleId
getRolePermissionsOfActiveRole(roleId) ==
    LET rows == SelectSeq(role_permissions, LAMBDA rp :
                    /\ rp.role_id = roleId
                    /\ \E r \in roles : r.id = roleId /\ r.is_active
                    /\ \E p \in permissions : p.id = rp.permission_id)
    IN  [i \in 1..Len(rows) |-> PermissionRow(rows[i].permission_id)]

getRolePermissions(roleId) ==
    LET rows == SelectSeq(role_permissions, LAMBDA rp :
                    /\ rp.role_id = roleId
                    /\ \E p \in permissions : p.id = rp.permission_id)
    IN  [i \in 1..Len(rows) |-> PermissionRow(rows[i].permission_id)]

\* RolePermissionRepository.hasPermission:
\* role_permissions JOIN permissions WHERE role_id = roleId AND p.name = permissionName, first()
RolePermissionRepository_hasPermission(roleId, permissionName) ==
    \E i \in 1..Len(role_permissions) : \E p \in permissions :
        /\ role_permissions[i].role_id = roleId
        /\ p.id = role_permissions[i].permission_id
        /\ p.name = permissionName

\* user_roles JOIN roles WHERE user_id AND r.name = roleName AND r.is_active, first()
hasRoleIgnoringActive(userId, roleName) ==
    \E i \in 1..Len(user_roles) : \E r \in roles :
        /\ user_roles[i].user_id = userId
        /\ r.id = user_roles[i].role_id
        /\ r.name = roleName

hasRole(userId, roleName) ==
    \E i \in 1..Len(user_roles) : \E r \in roles :
        /\ user_roles[i].user_id = userId
        /\ r.id = user_roles[i].role_id
        /\ r.name = roleName
        /\ r.is_active

\* user_roles WHERE user_id = userId
getUserRoleAssignments(userId) ==
    SelectSeq(user_roles, LAMBDA ur : ur.user_id = userId)

\* role_permissions WHERE role_id = roleId
getRolePermissionAssignments(roleId) ==
    SelectSeq(role_permissions, LAMBDA rp : rp.role_id = roleId)

(***************************************************************************)
(* RBACService.getUserPermissions / hasPermission                          *)
(***************************************************************************)
RECURSIVE pushAll(_, _)
\* for (const role of userRoles) allPermissions.push(...getRolePermissions(role.id))
pushAll(userRoles, i) ==
    IF i > Len(userRoles) THEN <<>>
    ELSE getRolePermissions(userRoles[i].id) \o pushAll(userRoles, i + 1)

\* self.findIndex(p => p.id === id)
findIndex(self, id) ==
    IF \E j \in 1..Len(self) : self[j].id = id
    THEN CHOOSE j \in 1..Len(self) :
            /\ self[j].id = id
            /\ \A k \in 1..(j - 1) : self[k].id # id
    ELSE 0

filterFirstKeepingAll(self, index) == SubSeq(self, index, Len(self))

RECURSIVE filterFirst(_, _)
\* allPermissions.filter((permission, index, self) => index === self.findIndex(...))
filterFirst(self, index) ==
    IF index > Len(self) THEN <<>>
    ELSE (IF index = findIndex(self, self[index].id) THEN <<self[index]>> ELSE <<>>)
         \o filterFirst(self, index + 1)

getUserPermissions(userId) ==
    LET userRoles == getUserRoles(userId)
        allPermissions == pushAll(userRoles, 1)
    IN  filterFirst(allPermissions, 1)

hasPermissionIgnoreCase(userId, permissionCheck) ==
    LET userPermissions == getUserPermissions(userId)
    IN  \E i \in 1..Len(userPermissions) :
            /\ toLowerCase(userPermissions[i].resource) = toLowerCase(permissionCheck.resource)
            /\ toLowerCase(userPermissions[i].action) = toLowerCase(permissionCheck.action)

hasPermission(userId, permissionCheck) ==
    LET userPermissions == getUserPermissions(userId)
    IN  \E i \in 1..Len(userPermissions) :
            /\ userPermissions[i].resource = permissionCheck.resource
            /\ userPermissions[i].action = permissionCheck.action

(***************************************************************************)
(* Junction-table writes                                                   *)
(***************************************************************************)
Ids(table) == {row.id : row \in table}

hasUserRoleRow(userId, roleId) ==
    \E i \in 1..Len(user_roles) :
        user_roles[i].user_id = userId /\ user_roles[i].role_id = roleId

hasRolePermissionRow(roleId, permissionId) ==
    \E i \in 1..Len(role_permissions) :
        role_permissions[i].role_id = roleId /\ role_permissions[i].permission_id = permissionId

userRoleInsertRejectedWithoutUnique(userId, roleId, assignedBy) ==
    /\ foreignKeys
    /\ (userId \notin Ids(users) \/ roleId \notin Ids(roles) \/ assignedBy \notin Ids(users))

\* INSERT INTO user_roles is rejected: unique(user_id, role_id), or a foreign key
userRoleInsertRejected(userId, roleId, assignedBy) ==
    \/ hasUserRoleRow(userId, roleId)
    \/ /\ foreignKeys
       /\ (userId \notin Ids(users) \/ roleId \notin Ids(roles) \/ assignedBy \notin Ids(users))

\* INSERT INTO role_permissions is rejected: unique(role_id, permission_id), or a foreign key
rolePermissionInsertRejected(roleId, permissionId, assignedBy) ==
    \/ hasRolePermissionRow(roleId, permissionId)
    \/ /\ foreignKeys
       /\ (roleId \notin Ids(roles) \/ permissionId \notin Ids(permissions)
           \/ assignedBy \notin Ids(users))

\* UserRoleRepository.assignRole: true when the insert went through, false when it threw
assignRole(userId, roleId, assignedBy) == ~userRoleInsertRejected(userId, roleId, assignedBy)

\* RolePermissionRepository.assignPermission
assignPermission(roleId, permissionId, assignedBy) ==
    ~rolePermissionInsertRejected(roleId, permissionId, assignedBy)

user_roles_after_insert(userId, roleId, assignedBy) ==
    IF userRoleInsertRejected(userId, roleId, assignedBy) THEN user_roles
    ELSE Append(user_roles, [user_id |-> userId, role_id |-> roleId, assigned_by |-> assignedBy])

role_permissions_after_insert(roleId, permissionId, assignedBy) ==
    IF rolePermissionInsertRejected(roleId, permissionId, assignedBy) THEN role_permissions
    ELSE Append(role_permissions,
                [role_id |-> roleId, permission_id |-> permissionId, assigned_by |-> assignedBy])

\* RBACService.assignRoleToUser returns what the repository reported
assignRoleToUserReportsRepository(repositoryResult) == repositoryResult

\* RBACService.assignRoleToUser: awaits the repository, drops its result, returns true;
\* the catch branch is for a repository that throws, which assignRole never does
assignRoleToUserResult(repositoryResult) == TRUE

assignPermissionToRoleReportsRepository(repositoryResult) == repositoryResult

\* RBACService.assignPermissionToRole: the same shape
assignPermissionToRoleResult(repositoryResult) == TRUE

\* results are records told apart by kind
Bool(b) == [kind |-> "boolean", ok |-> b]
Outcome(kind) == [kind |-> kind]

Reply(op, result) == [op |-> op, result |-> result]

(***************************************************************************)
(* Operations on the graph (RBACService, one action per method)            *)
(***************************************************************************)
AssignRoleToUser(userId, roleId, assignedBy) ==
    /\ userRoleInsertRejected(userId, roleId, assignedBy) \/ Len(user_roles) < MaxRows
    /\ user_roles' = user_roles_after_insert(userId, roleId, assignedBy)
    /\ response' = Reply("assignRoleToUser",
                         Bool(assignRoleToUserResult(assignRole(userId, roleId, assignedBy))))
    /\ UNCHANGED <<users, roles, permissions, role_permissions, foreignKeys, resolve,
                   secret, now, issued, calls, http>>

RemoveEveryRoleFromUser(userId, roleId) ==
    /\ user_roles' = SelectSeq(user_roles, LAMBDA ur : ur.user_id # userId)
    /\ response' = Reply("removeRoleFromUser", Bool(hasUserRoleRow(userId, roleId)))
    /\ UNCHANGED <<users, roles, permissions, role_permissions, foreignKeys, resolve,
                   secret, now, issued, calls, http>>

RemoveRoleFromUser(userId, roleId) ==
    /\ user_roles' = SelectSeq(user_roles, LAMBDA ur :
                         ~(ur.user_id = userId /\ ur.role_id = roleId))
    /\ response' = Reply("removeRoleFromUser", Bool(hasUserRoleRow(userId, roleId)))
    /\ UNCHANGED <<users, roles, permissions, role_permissions, foreignKeys, resolve,
                   secret, now, issued, calls, http>>

AssignPermissionToRole(roleId, permissionId, assignedBy) ==
    /\ rolePermissionInsertRejected(roleId, permissionId, assignedBy)
          \/ Len(role_permissions) < MaxRows
    /\ role_permissions' = role_permissions_after_insert(roleId, permissionId, assignedBy)
    /\ response' = Reply("assignPermissionToRole",
                         Bool(assignPermissionToRoleResult(
                                  assignPermission(roleId, permissionId, assignedBy))))
    /\ UNCHANGED <<users, roles, permissions, user_roles, foreignKeys, resolve,
                   secret, now, issued, calls, http>>

RemovePermissionFromRole(roleId, permissionId) ==
    /\ role_permissions' = SelectSeq(role_permissions, LAMBDA rp :
                               ~(rp.role_id = roleId /\ rp.permission_id = permissionId))
    /\ response' = Reply("removePermissionFromRole",
                         Bool(hasRolePermissionRow(roleId, permissionId)))
    /\ UNCHANGED <<users, roles, permissions, user_roles, foreignKeys, resolve,
                   secret, now, issued, calls, http>>

\* RoleRepository.update: only the supplied fields are written; a name another role
\* holds violates unique(name) and the error propagates
roleUpdateRejected(id, roleData) ==
    /\ roleData.name # None /\ roleData.name[1] # ""
    /\ \E r \in roles : r.id # id /\ r.name = roleData.name[1]
    /\ \E r \in roles : r.id = id

updatedRole(r, roleData) ==
    [id |-> r.id,
     name |-> IF roleData.name # None /\ roleData.name[1] # "" THEN roleData.name[1] ELSE r.name,
     is_active |-> IF roleData.isActive # None THEN roleData.isActive[1] ELSE r.is_active]

UpdateRole(id, roleData) ==
    /\ IF roleUpdateRejected(id, roleData)
       THEN /\ roles' = roles
            /\ response' = Reply("updateRole", Outcome("throw"))
       ELSE /\ roles' = {IF r.id = id THEN updatedRole(r, roleData) ELSE r : r \in roles}
            /\ response' = Reply("updateRole",
                   IF id \in Ids(roles) THEN Outcome("row") ELSE Null)
    /\ UNCHANGED <<users, permissions, user_roles, role_permissions, foreignKeys, resolve,
                   secret, now, issued, calls, http>>

\* RoleRepository.delete; ON DELETE CASCADE of both junctions when foreign keys are enforced
DeleteRole(id) ==
    /\ roles' = {r \in roles : r.id # id}
    /\ user_roles' = IF foreignKeys
                     THEN SelectSeq(user_roles, LAMBDA ur : ur.role_id # id)
                     ELSE user_roles
    /\ role_permissions' = IF foreignKeys
                           THEN SelectSeq(role_permissions, LAMBDA rp : rp.role_id # id)
                           ELSE role_permissions
    /\ response' = Reply("deleteRole", Bool(id \in Ids(roles)))
    /\ UNCHANGED <<users, permissions, foreignKeys, resolve, secret, now, issued, calls, http>>

\* PermissionRepository.delete
DeletePermission(id) ==
    /\ permissions' = {p \in permissions : p.id # id}
    /\ role_permissions' = IF foreignKeys
                           THEN SelectSeq(role_permissions, LAMBDA rp : rp.permission_id # id)
                           ELSE role_permissions
    /\ response' = Reply("deletePermission", Bool(id \in Ids(permissions)))
    /\ UNCHANGED <<users, roles, user_roles, foreignKeys, resolve, secret, now, issued, calls, http>>

(***************************************************************************)
(* Specification of the graph: the seeded database and the graph methods   *)
(***************************************************************************)
Assigners == {"admin-user-id"}
ActiveFlagUpdates == {[name |-> None, isActive |-> Some(b)] : b \in BOOLEAN}

Init ==
    /\ users = SeedUsers
    /\ roles = SeedRoles
    /\ permissions = SeedPermissions
    /\ user_roles = [i \in 1..Len(SeedUserRoles) |->
                        [user_id |-> SeedUserRoles[i].user_id,
                         role_id |-> SeedUserRoles[i].role_id,
                         assigned_by |-> "admin-user-id"]]
    /\ role_permissions = [i \in 1..Len(SeedRolePermissions) |->
                        [role_id |-> SeedRolePermissions[i].role_id,
                         permission_id |-> SeedRolePermissions[i].permission_id,
                         assigned_by |-> "admin-user-id"]]
    /\ foreignKeys \in BOOLEAN
    /\ secret = "secret-1"
    /\ now = 0
    /\ issued = {}
    /\ calls = [c \in Callers |-> Idle]
    /\ response = Reply("none", Outcome("none"))
    /\ http = NoRequest
    /\ resolve = NotResolving

Next ==
    \/ \E u \in UserIds, r \in RoleIds, by \in Assigners : AssignRoleToUser(u, r, by)
    \/ \E u \in UserIds, r \in RoleIds : RemoveRoleFromUser(u, r)
    \/ \E r \in RoleIds, p \in PermissionIds, by \in Assigners : AssignPermissionToRole(r, p, by)
    \/ \E r \in RoleIds, p \in PermissionIds : RemovePermissionFromRole(r, p)
    \/ \E r \in RoleIds, d \in ActiveFlagUpdates : UpdateRole(r, d)
    \/ \E r \in RoleIds : DeleteRole(r)
    \/ \E p \in PermissionIds : DeletePermission(p)

Spec == Init /\ [][Next]_vars

(***************************************************************************)
(* jsonwebtoken: sign / verify as RBACService uses them                    *)
(***************************************************************************)
\* JSON.stringify of the payload with iat and exp added
encode(payload, iat, exp) ==
    <<payload.userId, payload.username, payload.email, payload.roles,
      payload.permissions, iat, exp>>

\* JSON.parse of a token body
decode(body) ==
    [userId |-> body[1], username |-> body[2], email |-> body[3], roles |-> body[4],
     permissions |-> body[5], iat |-> body[6], exp |-> body[7]]

\* HMAC of the body under a key
sign(body, key) == [alg |-> "HS256", body |-> body, key |-> key]

\* jwt.sign(payload, key, {expiresIn})
jwtSign(payload, key, expiresIn) ==
    LET body == encode(payload, now, now + expiresIn)
    IN  [fmt |-> "jwt", body |-> body, sig |-> sign(body, key)]

\* jwt.verify(token, key): the decoded payload, or the error it throws
jwtVerify(token, key) ==
    IF token.fmt # "jwt" THEN [kind |-> "error", name |-> "JsonWebTokenError"]
    ELSE IF token.sig # sign(token.body, key)
         THEN [kind |-> "error", name |-> "JsonWebTokenError"]
    ELSE IF now >= decode(token.body).exp
         THEN [kind |-> "error", name |-> "TokenExpiredError"]
    ELSE [kind |-> "payload", payload |-> decode(token.body)]

\* jwt.decode(token): no signature or expiry check
jwtDecode(token) ==
    IF token.fmt # "jwt" THEN [kind |-> "error", name |-> "JsonWebTokenError"]
    ELSE [kind |-> "payload", payload |-> decode(token.body)]

generateTokenWithoutRoles(payload) ==
    jwtSign([payload EXCEPT !.roles = <<>>], secret, TTL)

\* RBACService.generateToken
generateToken(payload) == jwtSign(payload, secret, TTL)

verifyTokenWithoutCatch(token) ==
    LET r == jwtVerify(token, secret)
    IN  IF r.kind = "error" THEN [kind |-> "throw", name |-> r.name] ELSE r

verifyTokenWithoutSignatureCheck(token) ==
    LET r == jwtDecode(token)
    IN  IF r.kind = "error" THEN Null ELSE r

verifyTokenIgnoringExpiry(token) ==
    IF token.fmt # "jwt" \/ token.sig # sign(token.body, secret) THEN Null
    ELSE [kind |-> "payload", payload |-> decode(token.body)]

\* RBACService.verifyToken: try { jwt.verify } catch { return null }
verifyToken(token) ==
    LET r == jwtVerify(token, secret)
    IN  IF r.kind = "error" THEN Null ELSE r

(***************************************************************************)
(* RBACService.authenticateUser                                            *)
(***************************************************************************)
\* UserRepository.findByUsername: where({username}).first()
findByUsername(username) == {u \in users : u.username = username}

names(rows) == [i \in 1..Len(rows) |-> rows[i].name]

authResult(user) ==
    LET userRoles == getUserRoles(user.id)
        userPermissions == getUserPermissions(user.id)
        token == generateToken([userId |-> user.id,
                                username |-> user.username,
                                email |-> user.email,
                                roles |-> names(userRoles),
                                permissions |-> names(userPermissions)])
    IN  [kind |-> "auth",
         auth  |-> [user |-> [id |-> user.id, username |-> user.username,
                              email |-> user.email, isActive |-> user.is_active],
                    token |-> token,
                    roles |-> userRoles,
                    permissions |-> userPermissions]]

authenticateUserSkippingActiveCheck(username, password) ==
    IF findByUsername(username) = {} THEN Null
    ELSE LET user == CHOOSE u \in findByUsername(username) : TRUE
         IN  IF ~bcryptCompare(password, user.password) THEN Null
             ELSE authResult(user)

authenticateUser(username, password) ==
    IF findByUsername(username) = {} THEN Null
    ELSE LET user == CHOOSE u \in findByUsername(username) : TRUE
         IN  IF ~user.is_active THEN Null
             ELSE IF ~bcryptCompare(password, user.password) THEN Null
             ELSE authResult(user)

\* what the model remembers of an issued token: the claims it was issued for and the
\* secret of the service that signed it
Issue(payload, token) == [claims |-> payload, key |-> secret, token |-> token]

claimsOf(token) ==
    LET c == decode(token.body)
    IN  [userId |-> c.userId, username |-> c.username, email |-> c.email,
         roles |-> c.roles, permissions |-> c.permissions]

(***************************************************************************)
(* Token operations                                                        *)
(***************************************************************************)
AuthenticateUser(username, password) ==
    LET result == authenticateUser(username, password) IN
    /\ response' = Reply("authenticateUser", result)
    /\ IF result.kind = "auth"
       THEN /\ Cardinality(issued) < MaxIssued
            /\ issued' = issued \cup
                  {Issue([userId |-> result.auth.user.id,
                          username |-> result.auth.user.username,
                          email |-> result.auth.user.email,
                          roles |-> names(result.auth.roles),
                          permissions |-> names(result.auth.permissions)],
                         result.auth.token)}
       ELSE issued' = issued
    /\ UNCHANGED <<users, roles, permissions, user_roles, role_permissions, foreignKeys, resolve,
                   secret, now, calls, http>>

GenerateToken(payload) ==
    /\ Cardinality(issued) < MaxIssued
    /\ issued' = issued \cup {Issue(payload, generateToken(payload))}
    /\ response' = Reply("generateToken", [kind |-> "token", token |-> generateToken(payload)])
    /\ UNCHANGED <<users, roles, permissions, user_roles, role_permissions, foreignKeys, resolve,
                   secret, now, calls, http>>

VerifyToken(token) ==
    /\ response' = Reply("verifyToken", verifyToken(token))
    /\ UNCHANGED <<users, roles, permissions, user_roles, role_permissions, foreignKeys, resolve,
                   secret, now, issued, calls, http>>

\* time passes
Tick ==
    /\ now < MaxClock
    /\ now' = now + 1
    /\ UNCHANGED <<users, roles, permissions, user_roles, role_permissions, foreignKeys, resolve,
                   secret, issued, calls, response, http>>

\* the service is restarted with another config.jwt.secret
RotateSecret(newSecret) ==
    /\ newSecret # secret
    /\ secret' = newSecret
    /\ UNCHANGED <<users, roles, permissions, user_roles, role_permissions, foreignKeys, resolve,
                   now, issued, calls, response, http>>

\* UserRepository.update: only truthy / defined fields are written; unique(username),
\* unique(email) violations propagate. RBACService.updateUser hashes a truthy password.
userUpdateRejected(id, userData) ==
    /\ \E u \in users : u.id = id
    /\ \/ /\ userData.username # None /\ userData.username[1] # ""
          /\ \E u \in users : u.id # id /\ u.username = userData.username[1]
       \/ /\ userData.email # None /\ userData.email[1] # ""
          /\ \E u \in users : u.id # id /\ u.email = userData.email[1]

updatedUserRehashingAlways(u, userData) ==
    [id |-> u.id,
     username |-> IF userData.username # None /\ userData.username[1] # ""
                  THEN userData.username[1] ELSE u.username,
     email |-> IF userData.email # None /\ userData.email[1] # ""
               THEN userData.email[1] ELSE u.email,
     password |-> bcryptHash(IF userData.password # None THEN userData.password[1] ELSE ""),
     is_active |-> IF userData.isActive # None THEN userData.isActive[1] ELSE u.is_active]

updatedUser(u, userData) ==
    [id |-> u.id,
     username |-> IF userData.username # None /\ userData.username[1] # ""
                  THEN userData.username[1] ELSE u.username,
     email |-> IF userData.email # None /\ userData.email[1] # ""
               THEN userData.email[1] ELSE u.email,
     password |-> IF userData.password # None /\ userData.password[1] # ""
                  THEN bcryptHash(userData.password[1]) ELSE u.password,
     is_active |-> IF userData.isActive # None THEN userData.isActive[1] ELSE u.is_active]

UpdateUser(id, userData) ==
    /\ IF userUpdateRejected(id, userData)
       THEN /\ users' = users
            /\ response' = Reply("updateUser", Outcome("throw"))
       ELSE /\ users' = {IF u.id = id THEN updatedUser(u, userData) ELSE u : u \in users}
            /\ response' = Reply("updateUser",
                                 IF id \in Ids(users) THEN Outcome("row") ELSE Null)
    /\ UNCHANGED <<roles, permissions, user_roles, role_permissions, foreignKeys, resolve,
                   secret, now, issued, calls, http>>

(***************************************************************************)
(* Specification of the token lifecycle: seeded database, logins, direct   *)
(* generateToken calls, verification of whatever a client may present      *)
(***************************************************************************)
ClaimsInputs ==
    { [userId |-> "testuser", username |-> "testuser", email |-> "test@example.com",
       roles |-> <<"testrole">>, permissions |-> <<"test:permission">>] }

UserActiveUpdates ==
    {[username |-> None, email |-> None, password |-> None, isActive |-> Some(b)] :
        b \in BOOLEAN}

Garbage == [fmt |-> "garbage", body |-> <<>>, sig |-> sign(<<>>, "")]

\* what a client holding the issued tokens can present: the tokens themselves, a token
\* with its roles rewritten or its expiry pushed back under the old signature, a token
\* re-signed with a key of the client's own, and a string that is no token
Presentable ==
    {e.token : e \in issued}
    \cup {[e.token EXCEPT !.body[4] = <<"admin">>] : e \in issued}
    \cup {[e.token EXCEPT !.body[7] = MaxClock + TTL + 1] : e \in issued}
    \cup {[e.token EXCEPT !.sig = sign(e.token.body, "attacker-key")] : e \in issued}
    \cup {Garbage}

InitToken == Init /\ ~foreignKeys

NextToken ==
    \/ \E un \in Usernames, pw \in Passwords : AuthenticateUser(un, pw)
    \/ \E c \in ClaimsInputs : GenerateToken(c)
    \/ \E t \in Presentable : VerifyToken(t)
    \/ Tick
    \/ \E s \in Secrets : RotateSecret(s)
    \/ \E u \in UserIds, d \in UserActiveUpdates : UpdateUser(u, d)

SpecToken == InitToken /\ [][NextToken]_vars

(***************************************************************************)
(* Concurrent assignment calls. A call runs in three steps, split at its   *)
(* awaits: the service method is entered, the database executes the insert *)
(* (one atomic statement) and the repository takes its outcome, the        *)
(* service method returns to its caller.                                   *)
(***************************************************************************)
InFlight(c) == calls[c].pc \in {"called", "inserted"}

Enter(c, junction, a, b, by) ==
    /\ calls[c].pc = "idle"
    /\ calls' = [d \in Callers |->
                    IF d = c
                    THEN [Idle EXCEPT !.pc = "called", !.junction = junction, !.a = a,
                                      !.b = b, !.by = by,
                                      !.overlapped = \E o \in Callers \ {c} : InFlight(o)]
                    ELSE [calls[d] EXCEPT !.overlapped = @ \/ InFlight(d)]]
    /\ UNCHANGED <<users, roles, permissions, user_roles, role_permissions, foreignKeys, resolve,
                   secret, now, issued, response, http>>

\* RBACService.assignRoleToUser up to `await this.userRoleRepository.assignRole(...)`
CallAssignRoleToUser(c, userId, roleId, assignedBy) ==
    Enter(c, "user_roles", userId, roleId, assignedBy)

\* RBACService.assignPermissionToRole up to its await
CallAssignPermissionToRole(c, roleId, permissionId, assignedBy) ==
    Enter(c, "role_permissions", roleId, permissionId, assignedBy)

\* the insert statement of assignRole / assignPermission and the repository's try/catch
RepositoryInsert(c) ==
    LET call == calls[c] IN
    /\ call.pc = "called"
    /\ IF call.junction = "user_roles"
       THEN /\ userRoleInsertRejected(call.a, call.b, call.by) \/ Len(user_roles) < MaxRows
            /\ user_roles' = user_roles_after_insert(call.a, call.b, call.by)
            /\ calls' = [calls EXCEPT ![c].pc = "inserted",
                            ![c].repositoryResult = assignRole(call.a, call.b, call.by)]
            /\ UNCHANGED role_permissions
       ELSE /\ rolePermissionInsertRejected(call.a, call.b, call.by)
                  \/ Len(role_permissions) < MaxRows
            /\ role_permissions' = role_permissions_after_insert(call.a, call.b, call.by)
            /\ calls' = [calls EXCEPT ![c].pc = "inserted",
                            ![c].repositoryResult = assignPermission(call.a, call.b, call.by)]
            /\ UNCHANGED user_roles
    /\ UNCHANGED <<users, roles, permissions, foreignKeys, resolve, secret, now, issued, response, http>>

\* the service method resumes after the await and returns
ServiceReturn(c) ==
    LET call == calls[c]
        result == IF call.junction = "user_roles"
                  THEN assignRoleToUserResult(call.repositoryResult)
                  ELSE assignPermissionToRoleResult(call.repositoryResult)
    IN
    /\ call.pc = "inserted"
    /\ calls' = [calls EXCEPT ![c].pc = "returned", ![c].result = result]
    /\ response' = Reply(IF call.junction = "user_roles" THEN "assignRoleToUser"
                         ELSE "assignPermissionToRole", Bool(result))
    /\ UNCHANGED <<users, roles, permissions, user_roles, role_permissions, foreignKeys, resolve,
                   secret, now, issued, http>>

InitRace == Init

NextRace ==
    \/ \E c \in Callers, u \in UserIds, r \in RoleIds, by \in Assigners :
          CallAssignRoleToUser(c, u, r, by)
    \/ \E c \in Callers, r \in RoleIds, p \in PermissionIds, by \in Assigners :
          CallAssignPermissionToRole(c, r, p, by)
    \/ \E c \in Callers : RepositoryInsert(c)
    \/ \E c \in Callers : ServiceReturn(c)
    \/ \E u \in UserIds, r \in RoleIds : RemoveRoleFromUser(u, r)
    \/ \E r \in RoleIds, p \in PermissionIds : RemovePermissionFromRole(r, p)

SpecRace == InitRace /\ [][NextRace]_vars

(***************************************************************************)
(* The middleware chain of a protected route: verifyToken, then one        *)
(* require* gate, then the protected handler. A middleware either sends    *)
(* one response (res.status(code).json) or calls next().                   *)
(***************************************************************************)
\* res.status(code).json({error}); return
Respond(req, code) == [req EXCEPT !.status = Append(@, code), !.pc = "responded"]

\* next(): from the token step to the gate, from the gate to the protected handler
Continue(req) ==
    [req EXCEPT !.next = @ + 1,
                !.pc = IF @ = "verifyToken" THEN "require" ELSE "handler"]

\* authHeader.startsWith('Bearer ')
startsWith(authHeader, prefix) == authHeader.scheme = prefix

\* authHeader.substring(7)
substring(authHeader) == authHeader.credentials

\* UserRepository.findById behind RBACService.getUserById
getUserById(id) == {u \in users : u.id = id}

(***************************************************************************)
(* AuthMiddleware: the token step attaches the verified payload, the gates *)
(* ask the resolver                                                        *)
(***************************************************************************)
AuthMiddleware_verifyTokenAnyScheme(req) ==
    IF req.authorization = None THEN Respond(req, 401)
    ELSE LET token == substring(req.authorization[1])
             payload == verifyToken(token)
         IN  IF payload.kind # "payload" THEN Respond(req, 401)
             ELSE Continue([req EXCEPT !.user = Some(payload.payload)])

AuthMiddleware_verifyToken(req) ==
    IF req.authorization = None \/ ~startsWith(req.authorization[1], "Bearer ")
    THEN Respond(req, 401)
    ELSE LET token == substring(req.authorization[1])
             payload == verifyToken(token)
         IN  IF payload.kind # "payload" THEN Respond(req, 401)
             ELSE Continue([req EXCEPT !.user = Some(payload.payload)])

\* a resolver query made for the request; a query that rejects lands in the catch
Queried(req, n) == [req EXCEPT !.queries = @ + n]
Caught(req, code) == Respond([req EXCEPT !.failed = TRUE], code)

AuthMiddleware_requireRoleIgnoringActive(req, roleName, fails) ==
    LET asked == [req EXCEPT !.gate = Requirement("requireRole", <<roleName>>, <<>>)] IN
    IF req.user = None THEN Respond(asked, 401)
    ELSE IF fails THEN Caught(Queried(asked, 1), 500)
    ELSE IF ~hasRoleIgnoringActive(req.user[1].userId, roleName)
         THEN Respond(Queried(asked, 1), 403)
    ELSE Continue(Queried(asked, 1))

AuthMiddleware_requireRoleFromClaims(req, roleName, fails) ==
    LET asked == [req EXCEPT !.gate = Requirement("requireRole", <<roleName>>, <<>>)] IN
    IF req.user = None THEN Respond(asked, 401)
    ELSE IF fails THEN Caught(Queried(asked, 1), 500)
    ELSE IF ~\E i \in 1..Len(req.user[1].roles) : req.user[1].roles[i] = roleName
         THEN Respond(Queried(asked, 1), 403)
    ELSE Continue(Queried(asked, 1))

AuthMiddleware_requireRole(req, roleName, fails) ==
    LET asked == [req EXCEPT !.gate = Requirement("requireRole", <<roleName>>, <<>>)] IN
    IF req.user = None THEN Respond(asked, 401)
    ELSE IF fails THEN Caught(Queried(asked, 1), 500)
    ELSE IF ~hasRole(req.user[1].userId, roleName) THEN Respond(Queried(asked, 1), 403)
    ELSE Continue(Queried(asked, 1))

AuthMiddleware_requirePermissionForbidsAnonymous(req, permissionCheck, fails) ==
    LET asked == [req EXCEPT !.gate =
                     Requirement("requirePermission", <<>>, <<permissionCheck>>)] IN
    IF fails THEN Caught(Queried(asked, 1), 500)
    ELSE IF req.user = None \/ ~hasPermission(req.user[1].userId, permissionCheck)
         THEN Respond(Queried(asked, 1), 403)
    ELSE Continue(Queried(asked, 1))

AuthMiddleware_requirePermission(req, permissionCheck, fails) ==
    LET asked == [req EXCEPT !.gate =
                     Requirement("requirePermission", <<>>, <<permissionCheck>>)] IN
    IF req.user = None THEN Respond(asked, 401)
    ELSE IF fails THEN Caught(Queried(asked, 1), 500)
    ELSE IF ~hasPermission(req.user[1].userId, permissionCheck)
         THEN Respond(Queried(asked, 1), 403)
    ELSE Continue(Queried(asked, 1))

\* Promise.all(roleNames.map(hasRole)) then some(): one query per name
AuthMiddleware_requireAnyRole(req, roleNames, fails) ==
    LET asked == [req EXCEPT !.gate = Requirement("requireAnyRole", roleNames, <<>>)]
        n == Len(roleNames)
    IN
    IF req.user = None THEN Respond(asked, 401)
    ELSE IF fails /\ n > 0 THEN Caught(Queried(asked, n), 500)
    ELSE IF ~\E i \in 1..n : hasRole(req.user[1].userId, roleNames[i])
         THEN Respond(Queried(asked, n), 403)
    ELSE Continue(Queried(asked, n))

AuthMiddleware_requireAnyPermissionWithoutCatch(req, permissionChecks, fails) ==
    LET asked == [req EXCEPT !.gate =
                     Requirement("requireAnyPermission", <<>>, permissionChecks)]
        n == Len(permissionChecks)
    IN
    IF req.user = None THEN Respond(asked, 401)
    ELSE IF fails /\ n > 0
         THEN [Queried(asked, n) EXCEPT !.failed = TRUE, !.threw = TRUE, !.pc = "responded"]
    ELSE IF ~\E i \in 1..n : hasPermission(req.user[1].userId, permissionChecks[i])
         THEN Respond(Queried(asked, n), 403)
    ELSE Continue(Queried(asked, n))

AuthMiddleware_requireAnyPermission(req, permissionChecks, fails) ==
    LET asked == [req EXCEPT !.gate =
                     Requirement("requireAnyPermission", <<>>, permissionChecks)]
        n == Len(permissionChecks)
    IN
    IF req.user = None THEN Respond(asked, 401)
    ELSE IF fails /\ n > 0 THEN Caught(Queried(asked, n), 500)
    ELSE IF ~\E i \in 1..n : hasPermission(req.user[1].userId, permissionChecks[i])
         THEN Respond(Queried(asked, n), 403)
    ELSE Continue(Queried(asked, n))

(***************************************************************************)
(* AuthController.getProfile behind RBACClient.getProfile                  *)
(***************************************************************************)
\* the service's handler of GET /api/auth/profile, after its own token step
AuthController_getProfile(req) ==
    IF req.user = None THEN [status |-> 401, data |-> None]
    ELSE IF getUserById(req.user[1].userId) = {} THEN [status |-> 404, data |-> None]
    ELSE LET user == CHOOSE u \in getUserById(req.user[1].userId) : TRUE
         IN  [status |-> 200,
              data |-> Some([user |-> [id |-> user.id, username |-> user.username,
                                       email |-> user.email, isActive |-> user.is_active],
                             roles |-> getUserRoles(req.user[1].userId),
                             permissions |-> getUserPermissions(req.user[1].userId)])]

\* RBACClient.getProfile(token): the request carries 'Bearer ' + token (no apiKey is
\* configured); makeRequest throws on a response that is not ok, on a timeout and on a
\* network error
getProfile(token, fails) ==
    LET atService == AuthMiddleware_verifyToken(
                        Request("AuthMiddleware", "verifyToken",
                                Some(Header("Bearer ", token))))
        httpResponse == AuthController_getProfile(atService)
    IN  IF fails THEN [kind |-> "throw", status |-> 0]
        ELSE IF atService.pc = "responded"
             THEN [kind |-> "throw", status |-> atService.status[1]]
        ELSE IF httpResponse.status # 200
             THEN [kind |-> "throw", status |-> httpResponse.status]
        ELSE [kind |-> "profile", profile |-> httpResponse.data[1]]

(***************************************************************************)
(* RBACMiddleware: the token step builds the identity context from the     *)
(* profile, the gates read that context                                    *)
(***************************************************************************)
RBACMiddleware_verifyTokenFromClaims(req, fails) ==
    IF req.authorization = None \/ ~startsWith(req.authorization[1], "Bearer ")
    THEN Respond(req, 401)
    ELSE LET token == substring(req.authorization[1])
             profile == getProfile(token, fails)
         IN  IF profile.kind = "throw"
             THEN Respond([req EXCEPT !.failed = fails], 401)
             ELSE Continue([req EXCEPT !.user = Some(claimsOf(token))])

RBACMiddleware_verifyToken(req, fails) ==
    IF req.authorization = None \/ ~startsWith(req.authorization[1], "Bearer ")
    THEN Respond(req, 401)
    ELSE LET token == substring(req.authorization[1])
             profile == getProfile(token, fails)
         IN  IF profile.kind = "throw"
             THEN Respond([req EXCEPT !.failed = fails], 401)
             ELSE Continue([req EXCEPT !.user =
                     Some([userId |-> profile.profile.user.id,
                           username |-> profile.profile.user.username,
                           email |-> profile.profile.user.email,
                           roles |-> names(profile.profile.roles),
                           permissions |-> names(profile.profile.permissions)])])

\* array.includes(x)
includes(array, x) == \E i \in 1..Len(array) : array[i] = x

\* permission === `${resource}:${action}` || permission === `${resource}.${action}`
matchesColonOnly(permission, permissionCheck) ==
    permission = permissionCheck.resource \o ":" \o permissionCheck.action

matches(permission, permissionCheck) ==
    \/ permission = permissionCheck.resource \o ":" \o permissionCheck.action
    \/ permission = permissionCheck.resource \o "." \o permissionCheck.action

\* req.user.permissions.some(permission => ...)
some(userPermissions, permissionCheck) ==
    \E i \in 1..Len(userPermissions) : matches(userPermissions[i], permissionCheck)

RBACMiddleware_requireRole(req, roleName) ==
    LET asked == [req EXCEPT !.gate = Requirement("requireRole", <<roleName>>, <<>>)] IN
    IF req.user = None THEN Respond(asked, 401)
    ELSE IF ~includes(req.user[1].roles, roleName) THEN Respond(asked, 403)
    ELSE Continue(asked)

RBACMiddleware_requirePermission(req, permissionCheck) ==
    LET asked == [req EXCEPT !.gate =
                     Requirement("requirePermission", <<>>, <<permissionCheck>>)] IN
    IF req.user = None THEN Respond(asked, 401)
    ELSE IF ~some(req.user[1].permissions, permissionCheck) THEN Respond(asked, 403)
    ELSE Continue(asked)

RBACMiddleware_requireEveryRole(req, roleNames) ==
    LET asked == [req EXCEPT !.gate = Requirement("requireAnyRole", roleNames, <<>>)] IN
    IF req.user = None THEN Respond(asked, 401)
    ELSE IF ~\A i \in 1..Len(roleNames) : includes(req.user[1].roles, roleNames[i])
         THEN Respond(asked, 403)
    ELSE Continue(asked)

RBACMiddleware_requireAnyRole(req, roleNames) ==
    LET asked == [req EXCEPT !.gate = Requirement("requireAnyRole", roleNames, <<>>)] IN
    IF req.user = None THEN Respond(asked, 401)
    ELSE IF ~\E i \in 1..Len(roleNames) : includes(req.user[1].roles, roleNames[i])
         THEN Respond(asked, 403)
    ELSE Continue(asked)

RBACMiddleware_requireAnyPermission(req, permissionChecks) ==
    LET asked == [req EXCEPT !.gate =
                     Requirement("requireAnyPermission", <<>>, permissionChecks)] IN
    IF req.user = None THEN Respond(asked, 401)
    ELSE IF ~\E i \in 1..Len(permissionChecks) :
                 some(req.user[1].permissions, permissionChecks[i])
         THEN Respond(asked, 403)
    ELSE Continue(asked)

RBACMiddleware_requireAdminOrPermissionWithoutBypass(req, permissionCheck) ==
    LET asked == [req EXCEPT !.gate =
                     Requirement("requireAdminOrPermission", <<>>, <<permissionCheck>>)]
    IN
    IF req.user = None THEN Respond(asked, 401)
    ELSE IF ~some(req.user[1].permissions, permissionCheck) THEN Respond(asked, 403)
    ELSE Continue(asked)

RBACMiddleware_requireAdminOrPermission(req, permissionCheck) ==
    LET asked == [req EXCEPT !.gate =
                     Requirement("requireAdminOrPermission", <<>>, <<permissionCheck>>)]
    IN
    IF req.user = None THEN Respond(asked, 401)
    ELSE LET isAdmin == includes(req.user[1].roles, "admin")
             hasPermissionInContext == some(req.user[1].permissions, permissionCheck)
         IN  IF ~isAdmin /\ ~hasPermissionInContext THEN Respond(asked, 403)
             ELSE Continue(asked)

(***************************************************************************)
(* Further operations on the tables that change what a request is granted  *)
(***************************************************************************)
\* UserRepository.delete; ON DELETE CASCADE of user_id and assigned_by when foreign
\* keys are enforced
DeleteUser(id) ==
    /\ users' = {u \in users : u.id # id}
    /\ user_roles' = IF foreignKeys
                     THEN SelectSeq(user_roles, LAMBDA ur :
                              ur.user_id # id /\ ur.assigned_by # id)
                     ELSE user_roles
    /\ role_permissions' = IF foreignKeys
                           THEN SelectSeq(role_permissions, LAMBDA rp : rp.assigned_by # id)
                           ELSE role_permissions
    /\ response' = Reply("deleteUser", Bool(id \in Ids(users)))
    /\ UNCHANGED <<roles, permissions, foreignKeys, resolve, secret, now, issued, calls, http>>

\* PermissionRepository.update: the supplied columns are written as they are; a name
\* another permission holds violates unique(name) and the error propagates
permissionUpdateRejected(id, permissionData) ==
    /\ permissionData.name # None
    /\ \E p \in permissions : p.id # id /\ p.name = permissionData.name[1]
    /\ \E p \in permissions : p.id = id

updatedPermission(p, permissionData) ==
    [id |-> p.id,
     name |-> IF permissionData.name # None THEN permissionData.name[1] ELSE p.name,
     resource |-> IF permissionData.resource # None THEN permissionData.resource[1]
                  ELSE p.resource,
     action |-> IF permissionData.action # None THEN permissionData.action[1]
                ELSE p.action]

UpdatePermission(id, permissionData) ==
    /\ IF permissionUpdateRejected(id, permissionData)
       THEN /\ permissions' = permissions
            /\ response' = Reply("updatePermission", Outcome("throw"))
       ELSE /\ permissions' = {IF p.id = id THEN updatedPermission(p, permissionData)
                               ELSE p : p \in permissions}
            /\ response' = Reply("updatePermission",
                                 IF id \in Ids(permissions) THEN Outcome("row") ELSE Null)
    /\ UNCHANGED <<users, roles, user_roles, role_permissions, foreignKeys, resolve,
                   secret, now, issued, calls, http>>

(***************************************************************************)
(* A request through a protected route, one action per middleware          *)
(***************************************************************************)
\* express hands the request to the first middleware of the route: the token step, or
\* the gate when the route was declared without one
Route(middleware, tokenStep, authorization) ==
    /\ http.pc \in {"none", "handler", "responded"}
    /\ http' = Request(middleware, IF tokenStep THEN "verifyToken" ELSE "require",
                       authorization)
    /\ UNCHANGED <<users, roles, permissions, user_roles, role_permissions, foreignKeys, resolve,
                   secret, now, issued, calls, response>>

AtStep(middleware, pc) == http.middleware = middleware /\ http.pc = pc

Step(after) ==
    /\ http' = after
    /\ UNCHANGED <<users, roles, permissions, user_roles, role_permissions, foreignKeys, resolve,
                   secret, now, issued, calls, response>>

AuthVerifyToken ==
    AtStep("AuthMiddleware", "verifyToken") /\ Step(AuthMiddleware_verifyToken(http))

AuthRequireRole(roleName, fails) ==
    /\ AtStep("AuthMiddleware", "require")
    /\ fails => http.user # None
    /\ Step(AuthMiddleware_requireRole(http, roleName, fails))

AuthRequirePermission(permissionCheck, fails) ==
    /\ AtStep("AuthMiddleware", "require")
    /\ fails => http.user # None
    /\ Step(AuthMiddleware_requirePermission(http, permissionCheck, fails))

AuthRequireAnyRole(roleNames, fails) ==
    /\ AtStep("AuthMiddleware", "require")
    /\ fails => (http.user # None /\ Len(roleNames) > 0)
    /\ Step(AuthMiddleware_requireAnyRole(http, roleNames, fails))

AuthRequireAnyPermission(permissionChecks, fails) ==
    /\ AtStep("AuthMiddleware", "require")
    /\ fails => (http.user # None /\ Len(permissionChecks) > 0)
    /\ Step(AuthMiddleware_requireAnyPermission(http, permissionChecks, fails))

RBACVerifyToken(fails) ==
    /\ AtStep("RBACMiddleware", "verifyToken")
    /\ fails => (http.authorization # None
                    /\ startsWith(http.authorization[1], "Bearer "))
    /\ Step(RBACMiddleware_verifyToken(http, fails))

RBACRequireRole(roleName) ==
    AtStep("RBACMiddleware", "require") /\ Step(RBACMiddleware_requireRole(http, roleName))

RBACRequirePermission(permissionCheck) ==
    /\ AtStep("RBACMiddleware", "require")
    /\ Step(RBACMiddleware_requirePermission(http, permissionCheck))

RBACRequireAnyRole(roleNames) ==
    /\ AtStep("RBACMiddleware", "require")
    /\ Step(RBACMiddleware_requireAnyRole(http, roleNames))

RBACRequireAnyPermission(permissionChecks) ==
    /\ AtStep("RBACMiddleware", "require")
    /\ Step(RBACMiddleware_requireAnyPermission(http, permissionChecks))

RBACRequireAdminOrPermission(permissionCheck) ==
    /\ AtStep("RBACMiddleware", "require")
    /\ Step(RBACMiddleware_requireAdminOrPermission(http, permissionCheck))

(***************************************************************************)
(* Specification of the gate: logins against the seeded database,         *)
(* revocations of the grants of user1, and requests through routes         *)
(* protected by either middleware, all within the lifetime of the tokens   *)
(***************************************************************************)
Middlewares == {"AuthMiddleware", "RBACMiddleware"}

\* what a client sends as Authorization: nothing, an issued token under 'Bearer ' or
\* under another scheme, an issued token with its roles rewritten, a string that is
\* no token
Authorizations ==
    {None}
    \cup {Some(Header("Bearer ", e.token)) : e \in issued}
    \cup {Some(Header("bearer ", e.token)) : e \in issued}
    \cup {Some(Header("Bearer ", [e.token EXCEPT !.body[4] = <<"admin">>])) : e \in issued}
    \cup {Some(Header("Bearer ", Garbage))}

ContentRead == [resource |-> "content", action |-> "read"]
ContentDelete == [resource |-> "content", action |-> "delete"]

GateRoleNames == {"admin", "user", "Admin"}
GateChecks == {ContentRead, ContentDelete}
GateRoleNameLists == {<<>>, <<"admin">>, <<"manager", "user">>}
GateCheckLists == {<<>>, <<ContentDelete>>, <<ContentDelete, ContentRead>>}
LegacyNames == {[name |-> Some("content.read"), resource |-> None, action |-> None]}

InitGate == Init /\ ~foreignKeys

NextGate ==
    \/ \E un \in {"admin", "user1"} : AuthenticateUser(un, "password")
    \/ RemoveRoleFromUser("user-1-id", "user-role-id")
    \/ RemovePermissionFromRole("user-role-id", "perm-17")
    \/ \E d \in ActiveFlagUpdates : UpdateRole("user-role-id", d)
    \/ \E d \in LegacyNames : UpdatePermission("perm-17", d)
    \/ \E m \in Middlewares, tokenStep \in BOOLEAN, a \in Authorizations :
          (tokenStep \/ a = None) /\ Route(m, tokenStep, a)
    \/ AuthVerifyToken
    \/ \E n \in GateRoleNames, fails \in BOOLEAN : AuthRequireRole(n, fails)
    \/ \E c \in GateChecks, fails \in BOOLEAN : AuthRequirePermission(c, fails)
    \/ \E ns \in GateRoleNameLists, fails \in BOOLEAN : AuthRequireAnyRole(ns, fails)
    \/ \E cs \in GateCheckLists, fails \in BOOLEAN : AuthRequireAnyPermission(cs, fails)
    \/ \E fails \in BOOLEAN : RBACVerifyToken(fails)
    \/ \E n \in GateRoleNames : RBACRequireRole(n)
    \/ \E c \in GateChecks : RBACRequirePermission(c)
    \/ \E ns \in GateRoleNameLists : RBACRequireAnyRole(ns)
    \/ \E cs \in GateCheckLists : RBACRequireAnyPermission(cs)
    \/ \E c \in GateChecks : RBACRequireAdminOrPermission(c)

SpecGate == InitGate /\ [][NextGate]_vars

(***************************************************************************)
(* Specification of the token step over time: logins, the clock, a restart *)
(* with another secret, deletion of an account, and requests through a     *)
(* route of either middleware                                              *)
(***************************************************************************)
InitSession == Init /\ ~foreignKeys

NextSession ==
    \/ \E un \in {"admin", "user1"} : AuthenticateUser(un, "password")
    \/ Tick
    \/ \E s \in Secrets : RotateSecret(s)
    \/ DeleteUser("user-1-id")
    \/ \E m \in Middlewares, a \in Authorizations : Route(m, TRUE, a)
    \/ AuthVerifyToken
    \/ \E fails \in BOOLEAN : RBACVerifyToken(fails)
    \/ AuthRequireRole("user", FALSE)
    \/ RBACRequireRole("user")

SpecSession == InitSession /\ [][NextSession]_vars


(***************************************************************************)
(* Creating identities: RBACService.createUser and the two handlers that   *)
(* expose it, AuthController.register and UserController.createUser        *)
(***************************************************************************)
\* ids the database default generates for new rows
FreshUserIds == {"user-2-id", "user-3-id"}

\* INSERT INTO users is rejected: unique(username) or unique(email)
userInsertRejected(userData) ==
    \E u \in users : u.username = userData.username \/ u.email = userData.email

\* UserRepository.create behind RBACService.createUser: the row with the hashed
\* password, or the constraint error of the insert
createUser(userData, id) ==
    IF userInsertRejected(userData)
    THEN [kind |-> "throw", name |-> "UNIQUE constraint failed"]
    ELSE [kind |-> "user",
          user |-> [id |-> id, username |-> userData.username, email |-> userData.email,
                    password |-> bcryptHash(userData.password),
                    is_active |-> userData.isActive]]

\* createUserSchema / registerSchema: username of 3 to 50 characters, password of at
\* least 6 (the emails of the model are all well-formed)
validate(body) ==
    /\ Len(body.username) >= 3 /\ Len(body.username) <= 50
    /\ Len(body.password) >= 6

Http(status) == [kind |-> "http", status |-> status]

\* the handler: 400 on a body the schema refuses, 409 when getUserById(username)
\* finds a row, 201 with the created user, 500 from the catch
register(body, id) ==
    IF ~validate(body) THEN Http(400)
    ELSE IF getUserById(body.username) # {} THEN Http(409)
    ELSE IF createUser(body, id).kind = "throw" THEN Http(500)
    ELSE Http(201)

users_after_create(userData, id) ==
    IF createUser(userData, id).kind = "user"
    THEN users \cup {createUser(userData, id).user}
    ELSE users

CreateUser(userData) ==
    \E id \in FreshUserIds \ Ids(users) :
        /\ users' = users_after_create(userData, id)
        /\ response' = Reply("createUser", createUser(userData, id))
        /\ UNCHANGED <<roles, permissions, user_roles, role_permissions, foreignKeys, resolve,
                       secret, now, issued, calls, http>>

\* AuthController.register: the account is created active
Register(body) ==
    \E id \in FreshUserIds \ Ids(users) :
        LET userData == [body EXCEPT !.isActive = TRUE] IN
        /\ users' = IF register(userData, id).status = 201
                    THEN users_after_create(userData, id) ELSE users
        /\ response' = Reply("register", register(userData, id))
        /\ UNCHANGED <<roles, permissions, user_roles, role_permissions, foreignKeys, resolve,
                       secret, now, issued, calls, http>>

\* UserController.createUser: the same handler body, isActive taken from the request
CreateUserRoute(body) ==
    \E id \in FreshUserIds \ Ids(users) :
        /\ users' = IF register(body, id).status = 201
                    THEN users_after_create(body, id) ELSE users
        /\ response' = Reply("POST /api/users", register(body, id))
        /\ UNCHANGED <<roles, permissions, user_roles, role_permissions, foreignKeys, resolve,
                       secret, now, issued, calls, http>>

(***************************************************************************)
(* Specification of the identity directory                                 *)
(***************************************************************************)
NewUsers ==
    [username : {"admin", "newuser", "ab"},
     email : {"admin@example.com", "new@example.com"},
     password : {"password1", "short"},
     isActive : BOOLEAN]

InitIdentity == Init

NextIdentity ==
    \/ \E d \in NewUsers : CreateUser(d)
    \/ \E d \in NewUsers : Register(d)
    \/ \E d \in NewUsers : CreateUserRoute(d)
    \/ \E u \in UserIds \cup FreshUserIds : DeleteUser(u)
    \/ \E u \in UserIds, d \in UserActiveUpdates : UpdateUser(u, d)

SpecIdentity == InitIdentity /\ [][NextIdentity]_vars

(***************************************************************************)
(* Specification of deletions: parents are deleted while edges are         *)
(* assigned and removed                                                    *)
(***************************************************************************)
NextCascade ==
    \/ DeleteUser("user-1-id")
    \/ \E r \in RoleIds : DeleteRole(r)
    \/ DeletePermission("perm-17")
    \/ \E u \in UserIds : AssignRoleToUser(u, "user-role-id", "admin-user-id")
    \/ RemoveRoleFromUser("user-1-id", "user-role-id")
    \/ AssignPermissionToRole("user-role-id", "perm-19", "admin-user-id")
    \/ RemovePermissionFromRole("user-role-id", "perm-17")

SpecCascade == Init /\ [][NextCascade]_vars

(***************************************************************************)
(* Creating permissions: RBACService.createPermission, and the             *)
(* specification of the permissions table under create and update          *)
(***************************************************************************)
\* ids the database default generates for new rows
FreshPermissionIds == {"perm-20", "perm-21"}

\* INSERT INTO permissions is rejected: unique(name)
permissionInsertRejected(permissionData) ==
    \E p \in permissions : p.name = permissionData.name

\* PermissionRepository.create: the supplied name, resource and action are stored as
\* they are
CreatePermission(permissionData) ==
    \E id \in FreshPermissionIds \ Ids(permissions) :
        /\ IF permissionInsertRejected(permissionData)
           THEN /\ permissions' = permissions
                /\ response' = Reply("createPermission", Outcome("throw"))
           ELSE /\ permissions' = permissions \cup
                       {[id |-> id, name |-> permissionData.name,
                         resource |-> permissionData.resource,
                         action |-> permissionData.action]}
                /\ response' = Reply("createPermission", Outcome("row"))
        /\ UNCHANGED <<users, roles, user_roles, role_permissions, foreignKeys, resolve,
                       secret, now, issued, calls, http>>

NewPermissions ==
    [name : {"content:read", "content:write", "write-content"},
     resource : {"content"},
     action : {"read", "write"}]

PermissionUpdates ==
    [name : {None, Some("content.read"), Some("content:write")},
     resource : {None, Some("users")},
     action : {None, Some("write")}]

NextPermissions ==
    \/ \E d \in NewPermissions : CreatePermission(d)
    \/ \E d \in PermissionUpdates : UpdatePermission("perm-17", d)

SpecPermissions == Init /\ [][NextPermissions]_vars

(***************************************************************************)
(* Specification of credentials: users are updated and log in              *)
(***************************************************************************)
UserUpdates ==
    [username : {None, Some("renamed"), Some("admin")},
     email : {None, Some("user1@example.org")},
     password : {None, Some(""), Some("newpass")},
     isActive : {None, Some(FALSE), Some(TRUE)}]

LoginNames == {"user1", "renamed"}
LoginPasswords == {"password", "newpass"}

NextCredentials ==
    \/ \E d \in UserUpdates : UpdateUser("user-1-id", d)
    \/ \E un \in LoginNames, pw \in LoginPasswords : AuthenticateUser(un, pw)

SpecCredentials == Init /\ [][NextCredentials]_vars

(***************************************************************************)
(* Specification of the service's own routes: requests through the         *)
(* AuthMiddleware while grants are revoked and the user is deactivated     *)
(***************************************************************************)
NextLive ==
    \/ \E un \in {"admin", "user1"} : AuthenticateUser(un, "password")
    \/ RemoveRoleFromUser("user-1-id", "user-role-id")
    \/ RemovePermissionFromRole("user-role-id", "perm-17")
    \/ \E d \in ActiveFlagUpdates : UpdateRole("user-role-id", d)
    \/ \E d \in UserActiveUpdates : UpdateUser("user-1-id", d)
    \/ \E a \in Authorizations : Route("AuthMiddleware", TRUE, a)
    \/ AuthVerifyToken
    \/ \E n \in GateRoleNames, fails \in BOOLEAN : AuthRequireRole(n, fails)
    \/ \E c \in GateChecks, fails \in BOOLEAN : AuthRequirePermission(c, fails)

SpecLive == Init /\ [][NextLive]_vars

(***************************************************************************)
(* A resolver call among concurrent writers. getUserPermissions and        *)
(* authenticateUser run as a chain of awaited queries, one action per      *)
(* query; the database serves the statements of other callers in between.  *)
(***************************************************************************)
\* the tables the resolver reads
Graph == <<roles, permissions, user_roles, role_permissions>>

\* the grants of a user in the current graph: the names of the active roles and of
\* the effective permissions
Grants(userId) ==
    [roles |-> Range(names(getUserRoles(userId))),
     permissions |-> Range(names(getUserPermissions(userId)))]

\* the call has seen the current graph
Seen(call) == [call EXCEPT !.graph = Graph, !.seen = @ \cup {Grants(call.userId)}]

Resolving(call) ==
    /\ resolve' = call
    /\ UNCHANGED <<users, roles, permissions, user_roles, role_permissions, foreignKeys,
                   secret, now, issued, calls, response, http>>

\* RBACService.getUserPermissions is entered
CallGetUserPermissions(userId) ==
    /\ resolve.pc = "idle"
    /\ Resolving(Seen([NotResolving EXCEPT !.pc = "getUserRoles",
                                           !.op = "getUserPermissions",
                                           !.userId = userId]))

\* RBACService.authenticateUser up to its first graph query: the user is found, active
\* and the password compares; any other call returns null without reading the graph
CallAuthenticateUser(username, password) ==
    /\ resolve.pc = "idle"
    /\ Cardinality(issued) < MaxIssued
    /\ \E user \in findByUsername(username) :
          /\ user.is_active
          /\ bcryptCompare(password, user.password)
          /\ Resolving(Seen([NotResolving EXCEPT !.pc = "roles",
                                                 !.op = "authenticateUser",
                                                 !.userId = user.id]))

\* const roles = await this.userRoleRepository.getUserRoles(user.id)
AuthenticateReadsRoles ==
    /\ resolve.pc = "roles"
    /\ Resolving(Seen([resolve EXCEPT !.roles = getUserRoles(resolve.userId),
                                      !.pc = "getUserRoles"]))

\* const userRoles = await this.userRoleRepository.getUserRoles(userId)
ReadUserRoles ==
    /\ resolve.pc = "getUserRoles"
    /\ Resolving(Seen([resolve EXCEPT !.userRoles = getUserRoles(resolve.userId),
                                      !.i = 1,
                                      !.pc = "getRolePermissions"]))

\* one turn of the loop: await getRolePermissions(role.id), push its rows
ReadRolePermissions ==
    /\ resolve.pc = "getRolePermissions"
    /\ resolve.i <= Len(resolve.userRoles)
    /\ Resolving(Seen([resolve EXCEPT
                          !.allPermissions = @ \o getRolePermissions(resolve.userRoles[resolve.i].id),
                          !.i = @ + 1]))

\* the loop is over: duplicates are filtered and the call returns; authenticateUser signs
\* the token over the names of its roles and of the permissions
ResolveReturn ==
    LET userPermissions == filterFirst(resolve.allPermissions, 1)
        user == CHOOSE u \in users : u.id = resolve.userId
        payload == [userId |-> user.id, username |-> user.username, email |-> user.email,
                    roles |-> names(resolve.roles),
                    permissions |-> names(userPermissions)]
    IN
    /\ resolve.pc = "getRolePermissions"
    /\ resolve.i > Len(resolve.userRoles)
    /\ resolve' = NotResolving
    /\ IF resolve.op = "authenticateUser"
       THEN /\ issued' = issued \cup {Issue(payload, generateToken(payload))}
            /\ response' = Reply("authenticateUser",
                                 [kind |-> "auth",
                                  auth |-> [user |-> [id |-> user.id, username |-> user.username,
                                                      email |-> user.email,
                                                      isActive |-> user.is_active],
                                            token |-> generateToken(payload),
                                            roles |-> resolve.roles,
                                            permissions |-> userPermissions]])
       ELSE /\ issued' = issued
            /\ response' = Reply("getUserPermissions",
                                 [kind |-> "permissions", permissions |-> userPermissions])
    /\ UNCHANGED <<users, roles, permissions, user_roles, role_permissions, foreignKeys,
                   secret, now, calls, http>>

\* bookkeeping for the claims, no step of the program: the call's record of the graph
\* states it has lived through takes in the current one
Observe ==
    /\ resolve.pc # "idle"
    /\ resolve.graph # Graph
    /\ Resolving(Seen(resolve))

\* every graph state is on the call's record before a writer makes the next one
Observed == resolve.pc = "idle" \/ resolve.graph = Graph

NextResolve ==
    \/ CallGetUserPermissions("user-1-id")
    \/ CallAuthenticateUser("user1", "password")
    \/ AuthenticateReadsRoles
    \/ ReadUserRoles
    \/ ReadRolePermissions
    \/ ResolveReturn
    \/ Observe
    \/ Observed /\ AssignRoleToUser("user-1-id", "user-role-id", "admin-user-id")
    \/ Observed /\ RemoveRoleFromUser("user-1-id", "user-role-id")
    \/ Observed /\ AssignPermissionToRole("user-role-id", "perm-19", "admin-user-id")
    \/ Observed /\ RemovePermissionFromRole("user-role-id", "perm-17")
    \/ Observed /\ \E d \in ActiveFlagUpdates : UpdateRole("user-role-id", d)

SpecResolve == Init /\ [][NextResolve]_vars

(***************************************************************************)
(* Claims about the resolver, checked on the graph specification           *)
(***************************************************************************)
\* the permission rows some active role assigned to the user is assigned, read off the tables
PermissionsThroughRoles(userId, wantActive) ==
    { p \in permissions :
        \E i \in 1..Len(user_roles), j \in 1..Len(role_permissions), r \in roles :
            /\ user_roles[i].user_id = userId
            /\ user_roles[i].role_id = r.id
            /\ r.is_active = wantActive
            /\ role_permissions[j].role_id = r.id
            /\ role_permissions[j].permission_id = p.id }

\* C1: for every user, getUserPermissions holds exactly the permissions assigned to at
\* least one active role assigned to the user, which is the union of getRolePermissions
\* over getUserRoles; a permission reachable only through inactive roles is not in it.
C1_EffectivePermissions ==
    \A u \in UserIds :
        /\ Range(getUserPermissions(u)) = PermissionsThroughRoles(u, TRUE)
        /\ Range(getUserPermissions(u)) =
              UNION { Range(getRolePermissions(r.id)) : r \in Range(getUserRoles(u)) }
        /\ \A p \in PermissionsThroughRoles(u, FALSE) \ PermissionsThroughRoles(u, TRUE) :
              p \notin Range(getUserPermissions(u))

\* a user holds an active and an inactive role, and the inactive one alone grants something
C1_Witness ==
    \E u \in UserIds :
        /\ PermissionsThroughRoles(u, TRUE) # {}
        /\ PermissionsThroughRoles(u, FALSE) \ PermissionsThroughRoles(u, TRUE) # {}
        /\ Len(getUserPermissions(u)) = 1

C3_HasRoleIff ==
    \A u \in UserIds, n \in RoleNames :
        hasRole(u, n) <=>
            \E a \in Range(getUserRoleAssignments(u)) : \E r \in roles :
                r.id = a.role_id /\ r.is_active /\ r.name = n

\* a step that turns an active role inactive keeps every assignment row and makes
\* hasRole false for its name; a step that turns it active again makes hasRole true
\* for every user still holding a row, without any new row
C3_ActiveFlagStep ==
    \A r \in roles, u \in UserIds :
        LET after == {x \in roles' : x.id = r.id} IN
        /\ (r.is_active /\ \E x \in after : ~x.is_active) =>
              /\ getUserRoleAssignments(u)' = getUserRoleAssignments(u)
              /\ ~hasRole(u, r.name)'
        /\ (~r.is_active /\ \E x \in after : x.is_active) =>
              /\ getUserRoleAssignments(u)' = getUserRoleAssignments(u)
              /\ hasUserRoleRow(u, r.id) => hasRole(u, r.name)'

\* C3: hasRole(userId, roleName) is true iff an assignment row exists for an active role
\* of exactly that name; deactivating the role makes it false and keeps the row,
\* reactivating it makes it true again without re-assignment.
C3_HasRoleFollowsActiveFlag == []C3_HasRoleIff /\ [][C3_ActiveFlagStep]_vars

\* a role was just deactivated: its assignment row is still listed and hasRole is false
C3_Witness ==
    \E u \in UserIds, r \in roles :
        /\ response.op = "updateRole"
        /\ response.result.kind = "row"
        /\ ~r.is_active
        /\ \E a \in Range(getUserRoleAssignments(u)) : a.role_id = r.id
        /\ ~hasRole(u, r.name)

\* C9: a second assignPermissionToRole call for a pair that is already assigned reports
\* a failure to its caller, not success, and leaves the role-permission rows as they were.
C9_DuplicateAssignmentFails ==
    [][\A r \in RoleIds, p \in PermissionIds, by \in Assigners :
          ( /\ response'.op = "assignPermissionToRole"
            /\ hasRolePermissionRow(r, p)
            /\ AssignPermissionToRole(r, p, by) ) =>
              /\ response'.result = Bool(FALSE)
              /\ role_permissions' = role_permissions]_vars

(***************************************************************************)
(* Claims about credentials and tokens, checked on the token specification *)
(***************************************************************************)
credentialsMatch(username, password) ==
    \E u \in users :
        u.username = username /\ u.is_active /\ u.password = bcryptHash(password)

\* C4: authenticate returns a non-null result (identity, token, roles, permissions) iff
\* a user of that username exists, is active and the password matches the stored hash;
\* unknown username, inactive account and wrong password give the same null outcome,
\* issue no token and change no state.
C4_AuthenticateIffCredentials ==
    [][\A un \in Usernames, pw \in Passwords :
          (response'.op = "authenticateUser" /\ AuthenticateUser(un, pw)) =>
              /\ (response'.result.kind = "auth") <=> credentialsMatch(un, pw)
              /\ credentialsMatch(un, pw) =>
                    /\ response'.result.auth.user.username = un
                    /\ response'.result.auth.token \in {e.token : e \in issued'}
                    /\ response'.result.auth.roles =
                          getUserRoles(response'.result.auth.user.id)
                    /\ response'.result.auth.permissions =
                          getUserPermissions(response'.result.auth.user.id)
              /\ ~credentialsMatch(un, pw) =>
                    /\ response'.result = Null
                    /\ issued' = issued
                    /\ UNCHANGED <<users, roles, permissions, user_roles,
                                   role_permissions, secret, now>>]_vars

\* a login was refused while an account is inactive and no token has been issued
C4_Witness ==
    /\ response.op = "authenticateUser"
    /\ response.result = Null
    /\ \E u \in users : ~u.is_active
    /\ issued = {}

\* C5: verifyToken fails closed: whatever is presented, it returns null or claims and
\* never an exception; claims come back only for an unmodified token that generateToken
\* produced under the current secret and that has not expired.
C5_VerifyTokenFailsClosed ==
    /\ \A t \in Presentable :
          /\ verifyToken(t).kind \in {"null", "payload"}
          /\ verifyToken(t).kind = "payload" =>
                /\ \E e \in issued : e.token = t /\ e.key = secret
                /\ now < decode(t.body).exp
    /\ response.op = "verifyToken" => response.result.kind \in {"null", "payload"}

\* a still valid token is held; its rewritten and re-signed copies and a malformed
\* string are refused, and the last verifyToken call returned null
C5_Witness ==
    /\ response.op = "verifyToken"
    /\ response.result = Null
    /\ \E e \in issued :
          /\ verifyToken(e.token).kind = "payload"
          /\ verifyToken([e.token EXCEPT !.body[4] = <<"admin">>]) = Null
          /\ verifyToken([e.token EXCEPT !.body[7] = MaxClock + TTL + 1]) = Null
          /\ verifyToken([e.token EXCEPT !.sig = sign(e.token.body, "attacker-key")]) = Null
    /\ verifyToken(Garbage) = Null

C7_ExpiryFixed ==
    \A e \in issued :
        LET c == decode(e.token.body) IN
        /\ c.exp = c.iat + TTL
        /\ c.iat <= now
        /\ verifyToken(e.token).kind = "payload" => now < c.exp

C7_ExpiredStaysInvalid ==
    /\ now' >= now
    /\ \A e \in issued' \ issued : decode(e.token.body).iat = now
    /\ \A e \in issued :
          now >= decode(e.token.body).exp => verifyToken(e.token)' = Null

\* C7: every issued token has exp = iat + TTL; verifyToken accepts it only while the
\* clock is before exp, and from the moment the clock reaches exp every later
\* verifyToken of it returns null.
C7_LinearLifecycle == []C7_ExpiryFixed /\ [][C7_ExpiredStaysInvalid]_vars

\* a token signed with the current secret has expired and the last verifyToken was refused
C7_Witness ==
    /\ response.op = "verifyToken"
    /\ response.result = Null
    /\ \A e \in issued : e.key = secret /\ now >= decode(e.token.body).exp
    /\ issued # {}

\* C8: a token issued under one secret is refused by a service configured with any
\* other secret, whatever lifetime it has left.
C8_RotationInvalidates ==
    \A e \in issued : e.key # secret => verifyToken(e.token) = Null

\* the secret was rotated while an issued token is unexpired, and verifyToken refused
C8_Witness ==
    /\ response.op = "verifyToken"
    /\ response.result = Null
    /\ issued # {}
    /\ \A e \in issued : e.key # secret /\ now < decode(e.token.body).exp

(***************************************************************************)
(* Claims about concurrent assignment, checked on the race specification   *)
(***************************************************************************)
\* C10: when two callers concurrently attempt to assign the same (user, role) or the
\* same (role, permission) pair, exactly one of them succeeds and the loser of the
\* uniqueness race observes a failure: both are never told the assignment succeeded.
C10_OneWinner ==
    \A c1, c2 \in Callers :
        ( /\ c1 # c2
          /\ calls[c1].pc = "returned" /\ calls[c2].pc = "returned"
          /\ calls[c1].overlapped /\ calls[c2].overlapped
          /\ calls[c1].junction = calls[c2].junction
          /\ calls[c1].a = calls[c2].a /\ calls[c1].b = calls[c2].b
          /\ calls[c1].repositoryResult )
        => (calls[c1].result /\ ~calls[c2].result)

\* C11: after any interleaving of assign and remove calls on both junctions, no
\* (userId, roleId) pair has more than one user_roles row and no (roleId, permissionId)
\* pair has more than one role_permissions row.
C11_NoDuplicateEdges ==
    /\ \A i, j \in 1..Len(user_roles) :
          (user_roles[i].user_id = user_roles[j].user_id
              /\ user_roles[i].role_id = user_roles[j].role_id) => i = j
    /\ \A i, j \in 1..Len(role_permissions) :
          (role_permissions[i].role_id = role_permissions[j].role_id
              /\ role_permissions[i].permission_id = role_permissions[j].permission_id)
          => i = j

\* two overlapping calls inserted the same pair: the first insert went through, the
\* second was rejected
C11_Witness ==
    \E c1, c2 \in Callers :
        /\ c1 # c2
        /\ calls[c1].pc \in {"inserted", "returned"}
        /\ calls[c2].pc \in {"inserted", "returned"}
        /\ calls[c1].overlapped /\ calls[c2].overlapped
        /\ calls[c1].junction = calls[c2].junction
        /\ calls[c1].a = calls[c2].a /\ calls[c1].b = calls[c2].b
        /\ calls[c1].repositoryResult /\ ~calls[c2].repositoryResult

(***************************************************************************)
(* Claims about the authorization gate, checked on the gate specification  *)
(***************************************************************************)
\* the names of the active roles the user is assigned, read off the tables
ActiveRoleNames(userId) ==
    { r.name : r \in { x \in roles : x.is_active /\ hasUserRoleRow(userId, x.id) } }

\* the role set of the identity of the request: the context's list in the
\* RBACMiddleware, the graph in the AuthMiddleware
InRoleSet(name) ==
    IF http.middleware = "RBACMiddleware"
    THEN \E i \in 1..Len(http.user[1].roles) : http.user[1].roles[i] = name
    ELSE name \in ActiveRoleNames(http.user[1].userId)

\* the permission set of the identity holds an entry for the check: a name in the
\* colon or the dot form in the RBACMiddleware's context, an effective permission row
\* with the pair in the AuthMiddleware
InPermissionSet(check) ==
    IF http.middleware = "RBACMiddleware"
    THEN \E i \in 1..Len(http.user[1].permissions) :
            http.user[1].permissions[i]
                \in {check.resource \o ":" \o check.action,
                     check.resource \o "." \o check.action}
    ELSE \E p \in PermissionsThroughRoles(http.user[1].userId, TRUE) :
            p.resource = check.resource /\ p.action = check.action

\* the step in which the gate `name` decides on the request
Decides(name) ==
    /\ http.pc = "require"
    /\ http'.pc \in {"handler", "responded"}
    /\ http'.gate.name = name

\* next() was called once and nothing was sent
Allowed ==
    /\ http'.pc = "handler"
    /\ http'.next = http.next + 1
    /\ http'.status = http.status

\* one response with the status was sent and next() was not called
Denied(code) ==
    /\ http'.pc = "responded"
    /\ http'.next = http.next
    /\ http'.status = Append(http.status, code)

\* C12: with an identity present, requireRole(name) lets the request through to the
\* protected handler exactly when name is in the identity's role set (the context's
\* roles in the RBACMiddleware, an active role of that name assigned to the user in
\* the AuthMiddleware, whose query answered); otherwise it answers 403 and the
\* handler is not reached.
C12_RequireRole ==
    [][(Decides("requireRole") /\ http.user # None /\ ~http'.failed) =>
          IF InRoleSet(http'.gate.roleNames[1]) THEN Allowed ELSE Denied(403)]_vars

\* user1 still holds the row of role user, the role was deactivated, and the
\* AuthMiddleware refused requireRole('user') with 403
C12_Witness ==
    /\ http.middleware = "AuthMiddleware"
    /\ http.gate = Requirement("requireRole", <<"user">>, <<>>)
    /\ http.user # None
    /\ http.pc = "responded" /\ http.status = <<403>>
    /\ hasUserRoleRow("user-1-id", "user-role-id")
    /\ \E r \in roles : r.id = "user-role-id" /\ ~r.is_active

C14_AnyOf ==
    [][/\ (Decides("requireAnyRole") /\ http.user # None /\ ~http'.failed) =>
             IF \E i \in 1..Len(http'.gate.roleNames) : InRoleSet(http'.gate.roleNames[i])
             THEN Allowed ELSE Denied(403)
       /\ (Decides("requireAnyPermission") /\ http.user # None /\ ~http'.failed) =>
             IF \E i \in 1..Len(http'.gate.checks) : InPermissionSet(http'.gate.checks[i])
             THEN Allowed ELSE Denied(403)
       /\ ( /\ Decides("requireAnyRole") \/ Decides("requireAnyPermission")
            /\ http.user # None
            /\ http'.gate.roleNames = <<>> /\ http'.gate.checks = <<>> ) =>
             Denied(403)]_vars

\* a request of user1, who holds role user, got through requireAnyRole(manager, user)
\* on its second name
C14_Witness ==
    /\ http.gate = Requirement("requireAnyRole", <<"manager", "user">>, <<>>)
    /\ http.pc = "handler"
    /\ http.user # None
    /\ http.user[1].userId = "user-1-id"

\* C15: requireAdminOrPermission(check) lets an identity through exactly when its role
\* list holds 'admin' or its permission list holds an entry for the check: an admin
\* with no matching permission passes, a non-admin with the permission passes, a
\* non-admin with neither is answered 403.
C15_AdminOrPermission ==
    [][(Decides("requireAdminOrPermission") /\ http.user # None) =>
          IF \/ \E i \in 1..Len(http.user[1].roles) : http.user[1].roles[i] = "admin"
             \/ InPermissionSet(http'.gate.checks[1])
          THEN Allowed ELSE Denied(403)]_vars

\* the admin, whose only permission is content:delete, got through
\* requireAdminOrPermission(content, read)
C15_Witness ==
    /\ http.gate = Requirement("requireAdminOrPermission", <<>>, <<ContentRead>>)
    /\ http.pc = "handler"
    /\ http.user # None
    /\ http.user[1].roles = <<"admin">>
    /\ http.user[1].permissions = <<"content:delete">>

\* C16: a gate reached without an identity answers 401 at once, without any resolver
\* query; a gate reached with an identity whose queries answer either lets the
\* request through or answers 403, and never answers 401.
C16_FailureKinds ==
    [][(http.pc = "require" /\ http'.pc \in {"handler", "responded"}) =>
          /\ http.user = None => (Denied(401) /\ http'.queries = http.queries)
          /\ http.user # None =>
                /\ ~Denied(401)
                /\ ~http'.failed => (Allowed \/ Denied(403))]_vars

\* a route declared without the token step: the AuthMiddleware's requirePermission
\* answered 401 and asked the resolver nothing
C16_Witness ==
    /\ http.middleware = "AuthMiddleware"
    /\ http.gate.name = "requirePermission"
    /\ http.user = None
    /\ http.pc = "responded" /\ http.status = <<401>>
    /\ http.queries = 0 /\ http.next = 0

\* C17: every invocation of verifyToken or of a gate, also one whose resolver query
\* or profile lookup fails, either calls next() once and sends nothing, or sends one
\* response with status 401, 403 or 500 and does not call next(); nothing is thrown
\* out of the middleware.
C17_OneOutcome ==
    [][(http.pc \in {"verifyToken", "require"} /\ http' # http) =>
          /\ ~http'.threw
          /\ \/ Allowed
             \/ /\ http.pc = "verifyToken"
                /\ http'.pc = "require" /\ http'.next = http.next + 1
                /\ http'.status = http.status
             \/ \E code \in {401, 403, 500} : Denied(code)]_vars

\* the resolver query of a gate of the AuthMiddleware failed: one 500 was sent after
\* the token step had called next() once
C17_Witness ==
    /\ http.middleware = "AuthMiddleware"
    /\ http.gate.name = "requireAnyPermission"
    /\ http.failed
    /\ http.pc = "responded" /\ http.status = <<500>> /\ http.next = 1

(***************************************************************************)
(* Claims about the token step, checked on the session specification       *)
(***************************************************************************)
\* the header is present, starts with 'Bearer ', and what follows is a token the
\* service issued under its present secret and that has not expired
BearerVerifies(authorization) ==
    /\ authorization # None
    /\ authorization[1].scheme = "Bearer "
    /\ \E e \in issued :
          /\ e.token = authorization[1].credentials
          /\ e.key = secret
          /\ now < decode(e.token.body).exp

\* the token step went on to the next middleware with an identity attached
Authenticated ==
    /\ http'.pc = "require"
    /\ http'.user # None
    /\ http'.next = http.next + 1
    /\ http'.status = http.status

\* the step in which verifyToken decides on the request
TokenStep == http.pc = "verifyToken" /\ http'.pc # "verifyToken"

EffectivePermissionNames(userId) ==
    { p.name : p \in PermissionsThroughRoles(userId, TRUE) }

\* the claims of the token a request of the RBACMiddleware bears
BorneClaims == claimsOf(http.authorization[1].credentials)

C19_EmbeddedAtLogin ==
    \A e \in issued' \ issued :
        /\ claimsOf(e.token) = e.claims
        /\ Range(e.claims.roles) = ActiveRoleNames(e.claims.userId)
        /\ Range(e.claims.permissions) = EffectivePermissionNames(e.claims.userId)

\* verifyToken returns the embedded names whatever the tables hold by now
C19_TokenKeepsSnapshot ==
    \A e \in issued :
        /\ verifyToken(e.token).kind = "payload"
        /\ verifyToken(e.token).payload.roles = e.claims.roles
        /\ verifyToken(e.token).payload.permissions = e.claims.permissions

\* the identity context the RBACMiddleware attaches holds the names the tables give
\* the token's user at the token step, and the gate step leaves the context alone
C19_ContextFromProfile ==
    /\ (TokenStep /\ http.middleware = "RBACMiddleware" /\ http'.user # None) =>
          /\ http'.user[1].userId = BorneClaims.userId
          /\ Range(http'.user[1].roles) = ActiveRoleNames(BorneClaims.userId)
          /\ Range(http'.user[1].permissions) = EffectivePermissionNames(BorneClaims.userId)
    /\ (http.pc = "require" /\ http'.pc \in {"handler", "responded"}) =>
          http'.user = http.user

C20_DuplicateIdentityConflicts ==
    [][\A d \in NewUsers :
          /\ ( /\ response'.op = "createUser"
               /\ userInsertRejected(d)
               /\ CreateUser(d) ) =>
                 /\ response'.result.kind = "throw"
                 /\ users' = users
          /\ ( /\ response'.op \in {"register", "POST /api/users"}
               /\ validate(d)
               /\ userInsertRejected(d)
               /\ Register(d) \/ CreateUserRoute(d) ) =>
                 /\ response'.result = Http(409)
                 /\ users' = users]_vars

(***************************************************************************)
(* Claims about deletion                                                   *)
(***************************************************************************)
\* C21: no user_roles or role_permissions row refers to a user, role or permission
\* that is no longer stored, and every permission getUserPermissions returns is
\* reached through a stored role.
C21_NoDanglingRows ==
    /\ \A i \in 1..Len(user_roles) :
          /\ user_roles[i].user_id \in Ids(users)
          /\ user_roles[i].role_id \in Ids(roles)
          /\ user_roles[i].assigned_by \in Ids(users)
    /\ \A i \in 1..Len(role_permissions) :
          /\ role_permissions[i].role_id \in Ids(roles)
          /\ role_permissions[i].permission_id \in Ids(permissions)
          /\ role_permissions[i].assigned_by \in Ids(users)
    /\ \A u \in UserIds : \A p \in Range(getUserPermissions(u)) :
          \E r \in roles : hasUserRoleRow(u, r.id) /\ hasRolePermissionRow(r.id, p.id)

(***************************************************************************)
(* Claims about the role-level queries                                     *)
(***************************************************************************)
\* C22 as stated: for a role whose is_active flag is false, getRolePermissions returns
\* no permission and the role-level hasPermission is false for every name.
C22_InactiveRoleHasNoPermissions ==
    \A r \in roles :
        ~r.is_active =>
            /\ getRolePermissions(r.id) = <<>>
            /\ \A p \in permissions : ~RolePermissionRepository_hasPermission(r.id, p.name)

\* C22 amended: the role-level queries do not look at the role's active flag: for every
\* role, inactive ones included, getRolePermissions returns the stored permissions of
\* the rows getRolePermissionAssignments lists, and the role-level hasPermission is
\* true exactly for the names of those permissions.
C22_RoleQueriesIgnoreActiveFlag ==
    \A r \in RoleIds :
        /\ {p.id : p \in Range(getRolePermissions(r))} =
              {rp.permission_id : rp \in Range(getRolePermissionAssignments(r))}
                  \cap Ids(permissions)
        /\ Len(getRolePermissions(r)) =
              Len(SelectSeq(getRolePermissionAssignments(r),
                            LAMBDA rp : rp.permission_id \in Ids(permissions)))
        /\ \A p \in permissions :
              RolePermissionRepository_hasPermission(r, p.name) <=>
                  hasRolePermissionRow(r, p.id)

\* C22 witness: an inactive role whose assignment rows are stored and whose
\* permissions getRolePermissions returns
C22_Witness ==
    \E r \in roles :
        /\ ~r.is_active
        /\ getRolePermissionAssignments(r.id) # <<>>
        /\ getRolePermissions(r.id) # <<>>
        /\ \E p \in permissions : RolePermissionRepository_hasPermission(r.id, p.name)

(***************************************************************************)
(* Claims about the permissions table                                      *)
(***************************************************************************)
\* C23: every stored permission's name is its resource, a colon and its action, and
\* no two stored permissions have the same resource and action.
C23_CanonicalNames ==
    /\ \A p \in permissions : p.name = p.resource \o ":" \o p.action
    /\ \A p, q \in permissions :
          (p.resource = q.resource /\ p.action = q.action) => p.id = q.id

(***************************************************************************)
(* Claims about the administrator                                          *)
(***************************************************************************)
\* C24: a user who holds the active role named admin has every permission:
\* hasPermission(userId, check) is true for every check, whatever the roles grant.
C24_AdminHasEveryPermission ==
    \A u \in UserIds :
        hasRole(u, "admin") =>
            \A permissionCheck \in PermissionChecks : hasPermission(u, permissionCheck)

(***************************************************************************)
(* Claims about the order of getUserPermissions                            *)
(***************************************************************************)
\* the permissions of the user's active roles, role by role, before deduplication
Traversal(userId) == pushAll(getUserRoles(userId), 1)

\* where a permission is first met in the traversal
FirstSeen(traversal, id) ==
    LET at == {k \in 1..Len(traversal) : traversal[k].id = id}
    IN  CHOOSE k \in at : \A m \in at : k <= m

Supplied(field) == field # None /\ field[1] # ""

\* authenticate succeeds for exactly the password whose hash an active user stores
C26_AuthenticateFollowsCredential ==
    \A u \in users, pw \in LoginPasswords :
        (authenticateUser(u.username, pw).kind = "auth") <=>
            (u.is_active /\ u.password = bcryptHash(pw))

\* an updateUser that returns the row replaces the stored hash by that of a supplied
\* non-empty password and keeps it otherwise; every field it does not supply, and
\* every other user, stays as it was
C26_UpdateStep ==
    \A d \in UserUpdates, u \in users :
        ( /\ response'.op = "updateUser"
          /\ response'.result.kind = "row"
          /\ u.id = "user-1-id"
          /\ UpdateUser(u.id, d) ) =>
            \E v \in users' :
                /\ v.id = u.id
                /\ users' = (users \ {u}) \cup {v}
                /\ Supplied(d.password) => v.password = bcryptHash(d.password[1])
                /\ ~Supplied(d.password) => v.password = u.password
                /\ d.username = None => v.username = u.username
                /\ d.email = None => v.email = u.email
                /\ d.isActive = None => v.is_active = u.is_active

UserRolePairs == {<<ur.user_id, ur.role_id>> : ur \in Range(user_roles)}
RolePermissionPairs == {<<rp.role_id, rp.permission_id>> : rp \in Range(role_permissions)}

\* the last row of a junction table
Last(rows) == rows[Len(rows)]
Front(rows) == SubSeq(rows, 1, Len(rows) - 1)

\* what removeRoleFromUser(u, r) does to the graph and returns
C27_RemoveRoleStep ==
    \A u \in UserIds, r \in RoleIds :
        (response'.op = "removeRoleFromUser" /\ RemoveRoleFromUser(u, r)) =>
            /\ response'.result = Bool(<<u, r>> \in UserRolePairs)
            /\ UserRolePairs' = UserRolePairs \ {<<u, r>>}
            /\ Len(user_roles') = Len(user_roles) - (IF <<u, r>> \in UserRolePairs THEN 1 ELSE 0)
            /\ <<u, r>> \notin UserRolePairs => user_roles' = user_roles
            /\ (Len(user_roles) > 0 /\ Last(user_roles).user_id = u
                    /\ Last(user_roles).role_id = r) => user_roles' = Front(user_roles)
            /\ UNCHANGED <<users, roles, permissions, role_permissions>>

\* what removePermissionFromRole(r, p) does to the graph and returns
C27_RemovePermissionStep ==
    \A r \in RoleIds, p \in PermissionIds :
        (response'.op = "removePermissionFromRole" /\ RemovePermissionFromRole(r, p)) =>
            /\ response'.result = Bool(<<r, p>> \in RolePermissionPairs)
            /\ RolePermissionPairs' = RolePermissionPairs \ {<<r, p>>}
            /\ Len(role_permissions') =
                  Len(role_permissions) - (IF <<r, p>> \in RolePermissionPairs THEN 1 ELSE 0)
            /\ <<r, p>> \notin RolePermissionPairs => role_permissions' = role_permissions
            /\ (Len(role_permissions) > 0 /\ Last(role_permissions).role_id = r
                    /\ Last(role_permissions).permission_id = p)
                  => role_permissions' = Front(role_permissions)
            /\ UNCHANGED <<users, roles, permissions, user_roles>>

\* C27: a remove deletes the one row of its pair and returns true when the row exists,
\* and returns false changing nothing when it does not; every other row and every
\* user, role and permission is unchanged; removing the pair of the row that was
\* assigned last leaves the rows that were there before it.
C27_RemoveOneRow == [][C27_RemoveRoleStep /\ C27_RemovePermissionStep]_vars

\* C27 witness: a remove has just deleted one of a user's two rows and the other is
\* still stored
C27_Witness ==
    /\ response.op = "removeRoleFromUser"
    /\ response.result = Bool(TRUE)
    /\ \E u \in UserIds : Len(getUserRoleAssignments(u)) = 1 /\ Len(user_roles) = 1

(***************************************************************************)
(* Claims about the live gates of the AuthMiddleware                       *)
(***************************************************************************)
\* the roles and permissions the verified token of the request carries
Embedded(field, x) ==
    \E i \in 1..Len(http.user[1][field]) : http.user[1][field][i] = x

\* the user the token of the request names is stored and inactive
BearerInactive ==
    \E u \in users : u.id = http.user[1].userId /\ ~u.is_active

\* the graph grants the role / the permission to the user of the request now
GraphGrantsRole(name) == name \in ActiveRoleNames(http.user[1].userId)
GraphGrantsPermission(check) ==
    \E p \in PermissionsThroughRoles(http.user[1].userId, TRUE) :
        p.resource = check.resource /\ p.action = check.action

\* C28: a gate of the AuthMiddleware deciding on a request with a verified token lets
\* it through exactly when the graph, at that moment, grants the role or the
\* permission to the token's userId, whatever the token embeds and whether or not the
\* user is active: a revoked grant the token still lists is refused with 403, a grant
\* of a deactivated user is let through.
C28_LiveDecision ==
    [][(http.middleware = "AuthMiddleware" /\ http.user # None /\ ~http'.failed) =>
          /\ Decides("requireRole") =>
                /\ IF GraphGrantsRole(http'.gate.roleNames[1])
                   THEN Allowed ELSE Denied(403)
                /\ ( /\ Embedded("roles", http'.gate.roleNames[1])
                     /\ ~GraphGrantsRole(http'.gate.roleNames[1]) ) => Denied(403)
                /\ (BearerInactive /\ GraphGrantsRole(http'.gate.roleNames[1])) => Allowed
          /\ Decides("requirePermission") =>
                /\ IF GraphGrantsPermission(http'.gate.checks[1])
                   THEN Allowed ELSE Denied(403)
                /\ ( /\ Embedded("permissions", http'.gate.checks[1].resource \o ":"
                                                   \o http'.gate.checks[1].action)
                     /\ ~GraphGrantsPermission(http'.gate.checks[1]) ) => Denied(403)
                /\ (BearerInactive /\ GraphGrantsPermission(http'.gate.checks[1]))
                      => Allowed]_vars

\* C28 witness: user1 was deactivated and the role user deactivated after the login;
\* requireRole('user') refused the request with 403 although the token lists the role
C28_Witness ==
    /\ http.middleware = "AuthMiddleware"
    /\ http.gate = Requirement("requireRole", <<"user">>, <<>>)
    /\ http.pc = "responded" /\ http.status = <<403>>
    /\ http.user # None
    /\ Embedded("roles", "user")
    /\ ~GraphGrantsRole("user")

\* the other half of the case: a request of the deactivated user1 reached the handler
\* through requirePermission(content, read)
C28_InactiveUserPasses ==
    /\ http.middleware = "AuthMiddleware"
    /\ http.gate = Requirement("requirePermission", <<>>, <<ContentRead>>)
    /\ http.pc = "handler"
    /\ http.user # None
    /\ BearerInactive

(***************************************************************************)
(* Claims about the resolver among concurrent writers                      *)
(***************************************************************************)
\* C29: what a getUserPermissions call returns is the effective permission set of its
\* user in one graph state that existed between the call's start and its return, and
\* the roles and permissions authenticateUser embeds in a token are the user's roles
\* and effective permissions in one such state.
C29_AtomicSnapshot ==
    [][(resolve.pc = "getRolePermissions" /\ resolve'.pc = "idle") =>
          LET states == resolve.seen \cup {Grants(resolve.userId)} IN
          /\ response'.op = "getUserPermissions" =>
                \E g \in states :
                    g.permissions = Range(names(response'.result.permissions))
          /\ response'.op = "authenticateUser" =>
                \E g \in states :
                    /\ g.roles = Range(names(response'.result.auth.roles))
                    /\ g.permissions = Range(names(response'.result.auth.permissions))]_vars

(***************************************************************************)
(* Claims about the two gate modes                                         *)
(***************************************************************************)
\* the request of a user who has just logged in, at the gate of a middleware: its
\* identity context is the verified payload of the token authenticateUser returned
FreshRequest(middleware, user) ==
    LET token == authenticateUser(user.username, "password").auth.token IN
    [Request(middleware, "require", Some(Header("Bearer ", token)))
        EXCEPT !.user = Some(verifyToken(token).payload)]

\* C30: on the identity context of a token authenticateUser has just issued, the gate
\* that reads the context (RBACMiddleware) and the gate that asks the graph
\* (AuthMiddleware) decide alike for every requireRole(name) and for every
\* requirePermission({resource, action}).
C30_ModesAgree ==
    \A user \in users :
        authenticateUser(user.username, "password").kind = "auth" =>
            /\ \A n \in RoleNames :
                  (RBACMiddleware_requireRole(
                       FreshRequest("RBACMiddleware", user), n).pc = "handler")
                  <=> (AuthMiddleware_requireRole(
                           FreshRequest("AuthMiddleware", user), n, FALSE).pc = "handler")
            /\ \A c \in [resource : {"content", "users"}, action : {"read", "write"}] :
                  (RBACMiddleware_requirePermission(
                       FreshRequest("RBACMiddleware", user), c).pc = "handler")
                  <=> (AuthMiddleware_requirePermission(
                           FreshRequest("AuthMiddleware", user), c, FALSE).pc = "handler")

====
